---- MODULE Spec2Model ----
(***************************************************************************)
(* bin-parser.c: a binary file is read as a stream of packed 12-bit        *)
(* values (two per 3 bytes).  Every value is tallied in valueCount[] and   *)
(* stored in the ring lastValues[]; two reports are then written to the    *)
(* output file: the sorted maximum values and the last values read.        *)
(***************************************************************************)
EXTENDS Integers, Sequences, FiniteSets, TLC

(***************************************************************************)
(* Program constants.                                                      *)
(***************************************************************************)
NUM_ARGS == 2
BITS_PER_BYTE == 8
BITS_PER_VALUE == 12
MAX_VALUE == 4095
OUTPUT_COUNT == 32
SUCCESS == 0
FAILURE == -1
VALUE_ARRAY_SIZE == MAX_VALUE + 1
BYTES_IN_24BITS == 24 \div BITS_PER_BYTE
\* valueCount[] holds uint8_t: a count wraps modulo 2^8.
UINT8_BITS == 8
\* lastValuesIdx and lastValuesCount are size_t: their difference wraps
\* modulo 2^SIZE_BITS.
SIZE_BITS == 64

SortedHeaderFmt == "--Sorted Max %d Values--\r\n"
LastHeaderFmt == "--Last %d Values--\r\n"
ValueFmt == "%d\r\n"

(***************************************************************************)
(* Bounds of the model.                                                    *)
(***************************************************************************)
\* every input file of at most MaxShort bytes over ByteVals is checked
MaxShort == 5
\* the patterned input files have up to MaxLong bytes
MaxLong == 386

(***************************************************************************)
(* Integer arithmetic of the C code.                                       *)
(***************************************************************************)
RECURSIVE Pow2(_)
Pow2(n) == IF n = 0 THEN 1 ELSE 2 * Pow2(n - 1)

ShiftLeft(x, n) == x * Pow2(n)
ShiftRight(x, n) == x \div Pow2(n)

RECURSIVE BitAnd(_, _)
BitAnd(a, b) ==
    IF a = 0 \/ b = 0 THEN 0
    ELSE (a % 2) * (b % 2) + 2 * BitAnd(a \div 2, b \div 2)

RECURSIVE BitOr(_, _)
BitOr(a, b) ==
    IF a = 0 THEN b
    ELSE IF b = 0 THEN a
    ELSE (IF a % 2 = 1 \/ b % 2 = 1 THEN 1 ELSE 0)
         + 2 * BitOr(a \div 2, b \div 2)

\* the mask shifted by a byte instead of a value
UpperMaskByByte(x) ==
    ShiftRight(BitAnd(x, ShiftLeft(MAX_VALUE, BITS_PER_BYTE)), BITS_PER_VALUE)

\* #define UPPER_12BITS_MASK(x)
\*     ((x) & (MAX_VALUE << BITS_PER_VALUE)) >> BITS_PER_VALUE
UPPER_12BITS_MASK(x) ==
    ShiftRight(BitAnd(x, ShiftLeft(MAX_VALUE, BITS_PER_VALUE)), BITS_PER_VALUE)

\* #define LOWER_12BITS_MASK(x) ((x) & MAX_VALUE)
LOWER_12BITS_MASK(x) == BitAnd(x, MAX_VALUE)

\* conversion of an int to uint16_t
ToUint16(x) == x % Pow2(16)

\* 2^n modulo m, for n too large for 2^n to be computed
RECURSIVE Pow2Mod(_, _)
Pow2Mod(n, m) == IF n = 0 THEN 1 % m ELSE (2 * Pow2Mod(n - 1, m)) % m

\* ((size_t)a - (size_t)b) % m: the subtraction wraps modulo 2^SIZE_BITS
\* before the remainder is taken
SizeSubMod(a, b, m) ==
    IF a >= b THEN (a - b) % m
    ELSE LET d == b - a  \* the wrapped difference is 2^SIZE_BITS - d
         IN  (Pow2Mod(SIZE_BITS, m) + m - (d % m)) % m

(***************************************************************************)
(* The input files.                                                        *)
(***************************************************************************)
ByteVals == {0, 1, 255}

ShortFiles == UNION {[1..n -> ByteVals] : n \in 0..MaxShort}

\* the n-byte file that repeats the byte pattern p
Cycle(p, n) == [k \in 1..n |-> p[((k - 1) % Len(p)) + 1]]

Ramp == [k \in 1..256 |-> k - 1]

Patterns == {<<0>>, <<255>>, <<0, 0, 1>>, <<0, 0, 255>>,
             <<0, 0, 1, 0, 16, 2>>, Ramp}

LongLens == {48, 50, 60, 99} \cup ((MaxLong - 2)..MaxLong)

LongFiles == {Cycle(p, n) : p \in Patterns, n \in LongLens}

Files == ShortFiles \cup LongFiles

\* what an uninitialised byte of get24bits' buffer may hold
GarbageBytes == {0, 255}
\* what a read past the end of valueCount[] may return
GarbageCounts == {0, 2}

VARIABLES
    argc,             \* main: number of arguments, program name included
    inputReadable,    \* the input file can be opened
    file,             \* the bytes of the input file
    pos,              \* read position of inputFile
    inputOpen,        \* inputFile is open
    valueCount,       \* uint8_t valueCount[VALUE_ARRAY_SIZE]
    lastValues,       \* uint16_t lastValues[OUTPUT_COUNT]
    lastValuesIdx,    \* size_t lastValuesIdx
    lastValuesCount,  \* size_t lastValuesCount
    max,              \* parseInput: int max; main: int max
    out,              \* the lines of the output file, one per fprintf
    sinkOpen,         \* outputFile is open
    past,             \* the byte found past the end of valueCount[]
    count,            \* generateSortedOutput: int count
    start,            \* generateSortedOutput: int start
    i,                \* generateSortedOutput / generateLastOutput: int i
    idx,              \* generateLastOutput: int idx
    retVal,           \* parseInput: int retVal
    sortedRet,        \* generateSortedOutput: int retVal
    lastRet,          \* generateLastOutput: int retVal
    exitCode,         \* return value of main
    pc,               \* position of the program
    inserted,         \* history: the arguments of the calls of insertValue
    sinkOpens         \* history: number of fopen calls on the output file

vars == <<argc, file, pos, inputOpen, valueCount, lastValues, lastValuesIdx,
          lastValuesCount, max, out, sinkOpen, past, count, start, i, idx,
          retVal,
          sortedRet, lastRet, inputReadable, exitCode, pc, inserted, sinkOpens>>

dataVars == <<valueCount, lastValues, lastValuesIdx, lastValuesCount, inserted>>
sortVars == <<past, count, start, i>>

Init ==
    /\ argc \in {NUM_ARGS, NUM_ARGS + 1}
    /\ \/ inputReadable = TRUE /\ file \in Files
       \/ inputReadable = FALSE /\ file = <<>>
    /\ pos = 0
    /\ inputOpen = FALSE
    /\ valueCount = [v \in 0..MAX_VALUE |-> 0]
    /\ lastValues = [k \in 0..(OUTPUT_COUNT - 1) |-> 0]
    /\ lastValuesIdx = 0
    /\ lastValuesCount = 0
    /\ max = 0
    /\ out = <<>>
    /\ sinkOpen = FALSE
    /\ past = 0
    /\ count = 0
    /\ start = 0
    /\ i = 0
    /\ idx = 0
    /\ retVal = 0
    /\ sortedRet = 0
    /\ lastRet = 0
    /\ exitCode = 0
    /\ pc = "main"
    /\ inserted = <<>>
    /\ sinkOpens = 0

(***************************************************************************)
(* insertValue: the state of the two lists after value is inserted.        *)
(***************************************************************************)
insertValue(l, value) ==
    [vc  |-> [l.vc EXCEPT ![value] = (@ + 1) % Pow2(UINT8_BITS)],
     lv  |-> [l.lv EXCEPT ![l.idx] = value],
     idx |-> (l.idx + 1) % OUTPUT_COUNT,
     cnt |-> IF l.cnt < OUTPUT_COUNT THEN l.cnt + 1 ELSE l.cnt]

CurrentLists == [vc |-> valueCount, lv |-> lastValues,
                 idx |-> lastValuesIdx, cnt |-> lastValuesCount]

\* get24bits: *buf = (buffer[0] << 16) | (buffer[1] << 8) | (buffer[2])
Combine24(buffer) ==
    BitOr(BitOr(ShiftLeft(buffer[0], 16), ShiftLeft(buffer[1], 8)), buffer[2])

\* fread(buffer, 1, sizeof(buffer), inputFile): the number of bytes read
BytesRead == IF Len(file) - pos >= BYTES_IN_24BITS THEN BYTES_IN_24BITS
             ELSE Len(file) - pos

\* buffer[] after fread: the bytes read, the rest left as it was (garbage g)
BufferAfterRead(g) ==
    [k \in 0..(BYTES_IN_24BITS - 1) |->
        IF k < BytesRead THEN file[pos + k + 1] ELSE g[k]]

(***************************************************************************)
(* main and parseInput.                                                    *)
(***************************************************************************)
\* main: argc != NUM_ARGS + 1: printUsage, return FAILURE
MainUsage ==
    /\ pc = "main"
    /\ argc # NUM_ARGS + 1
    /\ exitCode' = FAILURE
    /\ pc' = "done"
    /\ UNCHANGED <<retVal, sortedRet, lastRet, argc, inputReadable, file, pos,
                   inputOpen, dataVars, max, out, sinkOpen, sortVars, idx,
                   sinkOpens>>

\* parseInput: fopen(input, "rb") fails
ParseOpenFail ==
    /\ pc = "main"
    /\ argc = NUM_ARGS + 1
    /\ ~inputReadable
    /\ retVal' = FAILURE
    /\ pc' = "mainParsed"
    /\ UNCHANGED <<sortedRet, lastRet, argc, inputReadable, file, pos,
                   inputOpen, dataVars, max, out, sinkOpen, sortVars, idx,
                   exitCode, sinkOpens>>

\* parseInput with max starting at a negative sentinel
ParseOpenSentinel ==
    /\ pc = "main"
    /\ argc = NUM_ARGS + 1
    /\ inputReadable
    /\ inputOpen' = TRUE
    /\ max' = -1
    /\ pc' = "parseLoop"
    /\ UNCHANGED <<retVal, sortedRet, lastRet, argc, inputReadable, file, pos,
                   dataVars, out, sinkOpen, sortVars, idx, exitCode,
                   sinkOpens>>

\* parseInput: fopen(input, "rb") succeeds; int max = 0
ParseOpen ==
    /\ pc = "main"
    /\ argc = NUM_ARGS + 1
    /\ inputReadable
    /\ inputOpen' = TRUE
    /\ max' = 0
    /\ pc' = "parseLoop"
    /\ UNCHANGED <<retVal, sortedRet, lastRet, argc, inputReadable, file, pos,
                   dataVars, out, sinkOpen, sortVars, idx, exitCode,
                   sinkOpens>>

\* parseInput: get24bits read nothing: retVal = max, fclose, return
ParseEnd ==
    /\ pc = "parseLoop"
    /\ BytesRead = 0
    /\ retVal' = max
    /\ inputOpen' = FALSE
    /\ pc' = "mainParsed"
    /\ UNCHANGED <<sortedRet, lastRet, argc, inputReadable, file, pos,
                   dataVars, max, out, sinkOpen, sortVars, idx, exitCode,
                   sinkOpens>>

\* parseInput taking a single trailing byte for the end of the input
ParseMalformedIgnored ==
    /\ pc = "parseLoop"
    /\ BytesRead = 1
    /\ pos' = pos + BytesRead
    /\ retVal' = max
    /\ inputOpen' = FALSE
    /\ pc' = "mainParsed"
    /\ UNCHANGED <<sortedRet, lastRet, argc, inputReadable, file, dataVars,
                   max, out, sinkOpen, sortVars, idx, exitCode, sinkOpens>>

\* parseInput: get24bits read one byte: retVal = FAILURE, fclose, return
ParseMalformed ==
    /\ pc = "parseLoop"
    /\ BytesRead = 1
    /\ pos' = pos + BytesRead
    /\ retVal' = FAILURE
    /\ inputOpen' = FALSE
    /\ pc' = "mainParsed"
    /\ UNCHANGED <<sortedRet, lastRet, argc, inputReadable, file, dataVars,
                   max, out, sinkOpen, sortVars, idx, exitCode, sinkOpens>>

\* the lists and max after one pass of the loop body on a group of n >= 2
\* bytes whose 24-bit window is value
IngestGroup(l, m, n, value) ==
    LET upper == ToUint16(UPPER_12BITS_MASK(value))
        lower == ToUint16(LOWER_12BITS_MASK(value))
        l1 == insertValue(l, upper)
        m1 == IF upper > m THEN upper ELSE m
    IN  IF n >= 3
        THEN [lists |-> insertValue(l1, lower),
              max |-> IF lower > m1 THEN lower ELSE m1,
              values |-> <<upper, lower>>]
        ELSE [lists |-> l1, max |-> m1, values |-> <<upper>>]

\* parseInput: get24bits read 2 or 3 bytes: insert upper, and lower if read
ParseGroup ==
    /\ pc = "parseLoop"
    /\ BytesRead >= 2
    /\ \E g \in [BytesRead..(BYTES_IN_24BITS - 1) -> GarbageBytes] :
         LET r == IngestGroup(CurrentLists, max, BytesRead,
                              Combine24(BufferAfterRead(g)))
         IN  /\ valueCount' = r.lists.vc
             /\ lastValues' = r.lists.lv
             /\ lastValuesIdx' = r.lists.idx
             /\ lastValuesCount' = r.lists.cnt
             /\ max' = r.max
             /\ inserted' = inserted \o r.values
    /\ pos' = pos + BytesRead
    /\ UNCHANGED <<retVal, sortedRet, lastRet, argc, inputReadable, file,
                   inputOpen, out, sinkOpen, sortVars, idx, exitCode, pc,
                   sinkOpens>>

\* main: if(max < 0) return FAILURE
MainCheckParse ==
    /\ pc = "mainParsed"
    /\ IF retVal < 0
       THEN /\ exitCode' = FAILURE
            /\ pc' = "done"
            /\ max' = max
       ELSE /\ max' = retVal
            /\ pc' = "sortedOpen"
            /\ exitCode' = exitCode
    /\ UNCHANGED <<retVal, sortedRet, lastRet, argc, inputReadable, file, pos,
                   inputOpen, dataVars, out, sinkOpen, sortVars, idx,
                   sinkOpens>>

(***************************************************************************)
(* getCount, getStart and generateSortedOutput.                            *)
(***************************************************************************)
\* The loop shared by getCount and getStart,
\*   for(i=max; i>=0 && count < OUTPUT_COUNT; i--)
\*       if(valueCount[i] > 0) count += valueCount[i];
\* as <<i, count>> at its exit.  A pass over an empty bucket only decrements
\* i, so a run of empty buckets is passed in one step.
RECURSIVE CountDown(_, _, _)
CountDown(vc, k, c) ==
    IF k >= 0 /\ c < OUTPUT_COUNT
    THEN LET full == {b \in 0..k : vc[b] > 0}
         IN  IF full = {} THEN <<-1, c>>
             ELSE LET b == CHOOSE x \in full : \A y \in full : y <= x
                  IN  CountDown(vc, b - 1, c + vc[b])
    ELSE <<k, c>>

getCount(vc, m) == CountDown(vc, m, 0)[2]

\* i++ undoes the last iteration
getStart(vc, m) == CountDown(vc, m, 0)[1] + 1

\* one fprintf(outputFile, fmt, arg) that succeeded
Line(fmt, arg) == [fmt |-> fmt, arg |-> arg]

Lines(fmt, arg, n) == [k \in 1..n |-> Line(fmt, arg)]

\* valueCount[k] as the emit loop reads it; g is what lies past the array
ReadValueCount(k, g) == IF k \in 0..MAX_VALUE THEN valueCount[k] ELSE g

\* the values a read of valueCount[k] outside the array may return: the
\* first such read finds any byte of GarbageCounts, and the later ones are
\* taken to find the same byte again
PastTheEnd(k) ==
    IF k \in 0..MAX_VALUE THEN {past}
    ELSE IF k = VALUE_ARRAY_SIZE THEN GarbageCounts
    ELSE {past}

\* generateSortedOutput: the number of lines printed for bucket k holding n
ThisCount(n, k, st, c) ==
    IF n <= 0 THEN 0
    ELSE IF k = st /\ c > OUTPUT_COUNT THEN n - (c - OUTPUT_COUNT)
    ELSE n

\* the loop walking downward
NextIndexDown(k) == k - 1

\* the loop's i++
NextIndex(k) == k + 1

\* generateSortedOutput: fopen(output, "w") fails
SortedOpenFail ==
    /\ pc = "sortedOpen"
    /\ sinkOpens' = sinkOpens + 1
    /\ sortedRet' = FAILURE
    /\ pc' = "mainSorted"
    /\ UNCHANGED <<retVal, lastRet, argc, inputReadable, file, pos, inputOpen,
                   dataVars, max, out, sinkOpen, sortVars, idx, exitCode>>

\* generateSortedOutput: fopen(output, "w"), header, getCount, getStart
SortedOpen ==
    /\ pc = "sortedOpen"
    /\ sinkOpens' = sinkOpens + 1
    /\ sinkOpen' = TRUE
    /\ out' = <<Line(SortedHeaderFmt, OUTPUT_COUNT)>>
    /\ count' = getCount(valueCount, max)
    /\ start' = getStart(valueCount, max)
    /\ i' = start'
    /\ pc' = "sortedLoop"
    /\ UNCHANGED <<retVal, sortedRet, lastRet, argc, inputReadable, file, pos,
                   inputOpen, dataVars, max, past, idx, exitCode>>

\* generateSortedOutput: one pass of for(i=start; count > 0; i++, count--)
SortedIter ==
    /\ pc = "sortedLoop"
    /\ count > 0
    /\ \E g \in PastTheEnd(i) :
         /\ out' = out \o Lines(ValueFmt, i,
                                ThisCount(ReadValueCount(i, g), i, start,
                                          count))
         /\ past' = g
    /\ i' = NextIndex(i)
    /\ count' = count - 1
    /\ UNCHANGED <<retVal, sortedRet, lastRet, argc, inputReadable, file, pos,
                   inputOpen, dataVars, max, sinkOpen, start, idx, exitCode,
                   pc, sinkOpens>>

\* generateSortedOutput: an fprintf of bucket i fails after k lines:
\* retVal = FAILURE, fclose, return
SortedWriteFail ==
    /\ pc = "sortedLoop"
    /\ count > 0
    /\ \E g \in PastTheEnd(i) :
         \E k \in 0..(ThisCount(ReadValueCount(i, g), i, start, count) - 1) :
            /\ out' = out \o Lines(ValueFmt, i, k)
            /\ past' = g
    /\ sortedRet' = FAILURE
    /\ sinkOpen' = FALSE
    /\ pc' = "mainSorted"
    /\ UNCHANGED <<retVal, lastRet, argc, inputReadable, file, pos, inputOpen,
                   dataVars, max, count, start, i, idx, exitCode, sinkOpens>>

\* generateSortedOutput: the loop ends: fclose, return SUCCESS
SortedDone ==
    /\ pc = "sortedLoop"
    /\ count <= 0
    /\ sortedRet' = SUCCESS
    /\ sinkOpen' = FALSE
    /\ pc' = "mainSorted"
    /\ UNCHANGED <<retVal, lastRet, argc, inputReadable, file, pos, inputOpen,
                   dataVars, max, out, sortVars, idx, exitCode, sinkOpens>>

\* main going on to generateLastOutput whatever generateSortedOutput returned
MainIgnoreSorted ==
    /\ pc = "mainSorted"
    /\ exitCode' = exitCode
    /\ pc' = "lastOpen"
    /\ UNCHANGED <<retVal, sortedRet, lastRet, argc, inputReadable, file, pos,
                   inputOpen, dataVars, max, out, sinkOpen, sortVars, idx,
                   sinkOpens>>

\* main: if(generateSortedOutput(output, max) < SUCCESS) return FAILURE
MainCheckSorted ==
    /\ pc = "mainSorted"
    /\ IF sortedRet < SUCCESS
       THEN /\ exitCode' = FAILURE
            /\ pc' = "done"
       ELSE /\ exitCode' = exitCode
            /\ pc' = "lastOpen"
    /\ UNCHANGED <<retVal, sortedRet, lastRet, argc, inputReadable, file, pos,
                   inputOpen, dataVars, max, out, sinkOpen, sortVars, idx,
                   sinkOpens>>

(***************************************************************************)
(* generateLastOutput.                                                     *)
(***************************************************************************)
\* the start offset taken to be the write cursor
LastStartAtCursor(wr, cnt) == wr % OUTPUT_COUNT

\* int idx = (lastValuesIdx - lastValuesCount) % OUTPUT_COUNT
LastStart(wr, cnt) == SizeSubMod(wr, cnt, OUTPUT_COUNT)

\* idx++ ... idx %= OUTPUT_COUNT
LastAdvance(k) == (k + 1) % OUTPUT_COUNT

\* generateLastOutput: fopen(output, "a") fails
LastOpenFail ==
    /\ pc = "lastOpen"
    /\ sinkOpens' = sinkOpens + 1
    /\ lastRet' = FAILURE
    /\ pc' = "mainLast"
    /\ UNCHANGED <<retVal, sortedRet, argc, inputReadable, file, pos,
                   inputOpen, dataVars, max, out, sinkOpen, sortVars, idx,
                   exitCode>>

\* generateLastOutput: fopen(output, "a"), header, idx
LastOpen ==
    /\ pc = "lastOpen"
    /\ sinkOpens' = sinkOpens + 1
    /\ sinkOpen' = TRUE
    /\ out' = Append(out, Line(LastHeaderFmt, OUTPUT_COUNT))
    /\ idx' = LastStart(lastValuesIdx, lastValuesCount)
    /\ i' = 0
    /\ pc' = "lastLoop"
    /\ UNCHANGED <<retVal, sortedRet, lastRet, argc, inputReadable, file, pos,
                   inputOpen, dataVars, max, past, count, start, exitCode>>

\* generateLastOutput: one pass of for(i=0; i<lastValuesCount; i++)
LastIter ==
    /\ pc = "lastLoop"
    /\ i < lastValuesCount
    /\ out' = Append(out, Line(ValueFmt, lastValues[idx]))
    /\ idx' = LastAdvance(idx)
    /\ i' = i + 1
    /\ UNCHANGED <<retVal, sortedRet, lastRet, argc, inputReadable, file, pos,
                   inputOpen, dataVars, max, sinkOpen, past, count, start,
                   exitCode, pc, sinkOpens>>

\* generateLastOutput: the fprintf fails: retVal = FAILURE, fclose, return
LastWriteFail ==
    /\ pc = "lastLoop"
    /\ i < lastValuesCount
    /\ idx' = idx + 1
    /\ lastRet' = FAILURE
    /\ sinkOpen' = FALSE
    /\ pc' = "mainLast"
    /\ UNCHANGED <<retVal, sortedRet, argc, inputReadable, file, pos,
                   inputOpen, dataVars, max, out, past, count, start, i,
                   exitCode, sinkOpens>>

\* generateLastOutput: the loop ends: fclose, return SUCCESS
LastDone ==
    /\ pc = "lastLoop"
    /\ i >= lastValuesCount
    /\ lastRet' = SUCCESS
    /\ sinkOpen' = FALSE
    /\ pc' = "mainLast"
    /\ UNCHANGED <<retVal, sortedRet, argc, inputReadable, file, pos,
                   inputOpen, dataVars, max, out, sortVars, idx, exitCode,
                   sinkOpens>>

\* main: if(generateLastOutput(output) < SUCCESS) return FAILURE;
\*       return SUCCESS
MainCheckLast ==
    /\ pc = "mainLast"
    /\ exitCode' = IF lastRet < SUCCESS THEN FAILURE ELSE SUCCESS
    /\ pc' = "done"
    /\ UNCHANGED <<retVal, sortedRet, lastRet, argc, inputReadable, file, pos,
                   inputOpen, dataVars, max, out, sinkOpen, sortVars, idx,
                   sinkOpens>>

Next ==
    \/ MainUsage
    \/ ParseOpenFail
    \/ ParseOpen
    \/ ParseEnd
    \/ ParseMalformed
    \/ ParseGroup
    \/ MainCheckParse
    \/ SortedOpenFail
    \/ SortedOpen
    \/ SortedIter
    \/ SortedWriteFail
    \/ SortedDone
    \/ MainCheckSorted
    \/ LastOpenFail
    \/ LastOpen
    \/ LastIter
    \/ LastWriteFail
    \/ LastDone
    \/ MainCheckLast

Spec == Init /\ [][Next]_vars

(***************************************************************************)
(* What the reports hold.                                                  *)
(***************************************************************************)
Min(a, b) == IF a < b THEN a ELSE b

Range(seq) == {seq[k] : k \in DOMAIN seq}

\* the number of entries of seq equal to v
Occ(seq, v) == Cardinality({k \in DOMAIN seq : seq[k] = v})

\* the place in the output file of the header of the second report, or the
\* place after the last line when it has not been written
LastHeaderAt ==
    IF \E k \in DOMAIN out : out[k].fmt = LastHeaderFmt
    THEN CHOOSE k \in DOMAIN out :
            /\ out[k].fmt = LastHeaderFmt
            /\ \A j \in 1..(k - 1) : out[j].fmt # LastHeaderFmt
    ELSE Len(out) + 1

\* the values on the value lines of the first report
SortedValues == [k \in 1..(LastHeaderAt - 2) |-> out[k + 1].arg]

\* the values on the value lines of the second report
LastValuesOut ==
    [k \in 1..(Len(out) - LastHeaderAt) |-> out[LastHeaderAt + k].arg]

\* generateSortedOutput has just returned SUCCESS
SortedReturned == pc = "mainSorted" /\ sortedRet = SUCCESS

\* generateLastOutput has just returned SUCCESS
LastReturned == pc = "mainLast" /\ lastRet = SUCCESS

\* the number of values on value lines of the first report that a sorted
\* list of the OUTPUT_COUNT largest occurrences holds of value v
TopOcc(v) ==
    LET above == Cardinality({k \in DOMAIN inserted : inserted[k] > v})
        room == IF above >= OUTPUT_COUNT THEN 0 ELSE OUTPUT_COUNT - above
    IN  Min(Occ(inserted, v), room)

RECURSIVE SumOver(_, _)
SumOver(f, S) ==
    IF S = {} THEN 0
    ELSE LET x == CHOOSE y \in S : TRUE IN f[x] + SumOver(f, S \ {x})

\* the sum of all the counts of the frequency table
SumCounts == SumOver(valueCount, {v \in DOMAIN valueCount : valueCount[v] > 0})

\* the number of values the first p bytes of the input hold
ValuesIn(p) ==
    2 * (p \div BYTES_IN_24BITS) + (IF p % BYTES_IN_24BITS = 2 THEN 1 ELSE 0)

\* byte k (from 0) of group g (from 0) of the input, 0 where the input ends
ByteOf(g, k) ==
    LET at == BYTES_IN_24BITS * g + k + 1
    IN  IF at <= Len(file) THEN file[at] ELSE 0

\* the 24-bit big-endian quantity of group g
Window(g) == ByteOf(g, 0) * 65536 + ByteOf(g, 1) * 256 + ByteOf(g, 2)

\* the values of the first p bytes of the input: upper then lower of each
\* group
Unpacked(p) ==
    [k \in 1..ValuesIn(p) |->
        IF k % 2 = 1 THEN Window((k - 1) \div 2) \div 4096
        ELSE Window((k - 1) \div 2) % 4096]

(***************************************************************************)
(* C1: for an input ingested successfully, with T values ingested, the     *)
(* first report holds exactly min(32, T) value lines, whose values are     *)
(* the min(32, T) largest occurrences of the stream, duplicates counted.   *)
(***************************************************************************)
C1_TopOccurrences ==
    SortedReturned =>
        /\ Len(SortedValues) = Min(OUTPUT_COUNT, Len(inserted))
        /\ \A v \in Range(inserted) \cup Range(SortedValues) :
              Occ(SortedValues, v) = TopOcc(v)

LastInserted ==
    SubSeq(inserted, Len(inserted) - Min(Len(inserted), OUTPUT_COUNT) + 1,
           Len(inserted))

C3_Recency ==
    /\ lastValuesCount = Min(Len(inserted), OUTPUT_COUNT)
    /\ pc = "lastLoop" => LastValuesOut = SubSeq(LastInserted, 1, i)
    /\ LastReturned => LastValuesOut = LastInserted

C3_Witness ==
    /\ LastReturned
    /\ Len(inserted) > OUTPUT_COUNT
    /\ lastValuesIdx # 0
    /\ Cardinality(Range(LastValuesOut)) = OUTPUT_COUNT

(***************************************************************************)
(* C4: after parseInput has read an input of n bytes, the counts of the    *)
(* frequency table add up to 2*(n div 3) + (1 if n mod 3 = 2), however     *)
(* often one value occurs.                                                 *)
(***************************************************************************)
C4_SumOfCounts ==
    (pc = "mainParsed" /\ inputReadable) => SumCounts = ValuesIn(Len(file))

(***************************************************************************)
(* C5: an input that ends in a single trailing byte makes parseInput       *)
(* return FAILURE and the run fail, and the output file is never opened    *)
(* or written.                                                             *)
(***************************************************************************)
C5_TrailingByte ==
    Len(file) % BYTES_IN_24BITS = 1 =>
        /\ pc \in {"main", "parseLoop", "mainParsed", "done"}
        /\ pc = "mainParsed" => retVal = FAILURE
        /\ pc = "done" => exitCode = FAILURE
        /\ sinkOpens = 0 /\ ~sinkOpen /\ out = <<>>

C5_Witness ==
    /\ Len(file) % BYTES_IN_24BITS = 1
    /\ pc = "done"
    /\ argc = NUM_ARGS + 1
    /\ Len(inserted) > OUTPUT_COUNT

(***************************************************************************)
(* C6: a group of 3 bytes yields bits 23..12 and then bits 11..0 of its    *)
(* 24-bit quantity, a final group of 2 bytes yields the top 12 bits of     *)
(* b0<<16 | b1<<8 whatever the third byte of the buffer holds, and every   *)
(* value ingested lies in 0..4095.                                         *)
(***************************************************************************)
C6_Unpacking ==
    /\ inserted = Unpacked(pos)
    /\ \A k \in DOMAIN inserted : inserted[k] \in 0..MAX_VALUE

C6_Witness ==
    /\ pc = "mainParsed"
    /\ Len(file) % BYTES_IN_24BITS = 2
    /\ Len(inserted) >= 3
    /\ inserted[1] > inserted[2]
    /\ inserted[2] > 0
    /\ inserted[Len(inserted)] > 255

(***************************************************************************)
(* C7: on an empty input parseInput returns a value >= 0 and the run       *)
(* succeeds with an output file that holds the header of the first report  *)
(* and then the header of the second, and nothing else.                    *)
(***************************************************************************)
C7_EmptyInput ==
    (inputReadable /\ Len(file) = 0 /\ argc = NUM_ARGS + 1) =>
        /\ pc = "mainParsed" => retVal >= 0
        /\ pc = "done" => sinkOpens >= 1
        /\ (pc = "done" /\ sortedRet = SUCCESS /\ lastRet = SUCCESS) =>
              /\ exitCode = SUCCESS
              /\ out = <<Line(SortedHeaderFmt, OUTPUT_COUNT),
                         Line(LastHeaderFmt, OUTPUT_COUNT)>>

C7_Witness ==
    /\ inputReadable /\ Len(file) = 0
    /\ pc = "done"
    /\ exitCode = SUCCESS
    /\ Len(out) = 2

(***************************************************************************)
(* C8: when generateSortedOutput returns FAILURE the output file is        *)
(* closed, the run fails, and generateLastOutput is never called: the      *)
(* output file is not opened again and no second report is written.        *)
(***************************************************************************)
C8_SortedFailure ==
    sortedRet = FAILURE =>
        /\ pc \in {"mainSorted", "done"}
        /\ pc = "done" => exitCode = FAILURE
        /\ ~sinkOpen
        /\ sinkOpens = 1
        /\ \A k \in DOMAIN out : out[k].fmt # LastHeaderFmt

C8_Witness ==
    /\ sortedRet = FAILURE
    /\ pc = "done"
    /\ Len(out) > 2

(***************************************************************************)
(* C9: when the downward walk stops with a running count above 32 the      *)
(* boundary bucket S is printed count[S] - (running count - 32) times,     *)
(* which is between 1 and count[S], and every other bucket from S up to    *)
(* the maximum is printed in full; with a running count of at most 32      *)
(* every bucket is printed in full.                                        *)
(***************************************************************************)
C9_Truncation ==
    SortedReturned =>
        LET running == getCount(valueCount, max)
            S == getStart(valueCount, max)
            kept == valueCount[S] - (running - OUTPUT_COUNT)
        IN  IF running > OUTPUT_COUNT
            THEN /\ Occ(SortedValues, S) = kept
                 /\ kept >= 1 /\ kept <= valueCount[S]
                 /\ \A b \in (S + 1)..max :
                       Occ(SortedValues, b) = valueCount[b]
            ELSE \A b \in S..max : Occ(SortedValues, b) = valueCount[b]

(***************************************************************************)
(* C10: every index at which getCount, getStart and the emit loop of       *)
(* generateSortedOutput read valueCount[] lies in 0..4095.                 *)
(***************************************************************************)
C10_IndexInBounds ==
    /\ pc = "sortedOpen" => max \in 0..MAX_VALUE
    /\ (pc = "sortedLoop" /\ count > 0) => i \in 0..MAX_VALUE
====
